---- MODULE Spec2Model ----
(***************************************************************************)
(* INKO backend (src/app.py): the Flask handlers signup, login, get_feed,  *)
(* like_post, add_comment, toggle_follow and mark_notification_read over   *)
(* the tables users, posts, likes, comments, follows and notifications.    *)
(*                                                                         *)
(* A handler is a sequence of statements (validate, get_db, cursor, the    *)
(* SQL statements, commit).  Exec runs ONE statement of a request; Run     *)
(* runs a request to its response.  The sequential specifications take a   *)
(* whole request as one action (Run); SpecRace interleaves the statements  *)
(* of two connections (Exec), under PostgreSQL's READ COMMITTED rules.     *)
(* get_db, cursor, every execute and commit may raise.                     *)
(***************************************************************************)
EXTENDS Integers, Sequences, FiniteSets, Bags, TLC

VARIABLES users, posts, likes, follows, comments, notifications, conns, nreq, before

vars == <<users, posts, likes, follows, comments, notifications, conns, nreq, before>>

(***************************************************************************)
(* Bounds of the model.                                                    *)
(***************************************************************************)
MaxRequests == 2
MaxRaceRequests == 3
MaxAuthRequests == 3

(***************************************************************************)
(* JSON values of a request body.  An id arrives as a JSON number or as a  *)
(* JSON string holding its decimal digits; a missing key reads as None.    *)
(***************************************************************************)
JNull == <<"null", 0>>

JInt(n) == <<"int", n>>

JStr(n) == <<"str", n>>

\* Python truthiness (`if not user_id`): None and 0 are falsy; a string of
\* digits is never empty, so it is truthy.
Truthy(v) == CASE v[1] = "null" -> FALSE
               [] v[1] = "int" -> v[2] # 0
               [] OTHER -> TRUE

\* Python == between two request values, or a request value and a value read
\* from an integer column: 1 == "1" is False.
PyEq(a, b) == a = b

\* The value PostgreSQL stores or compares when the parameter meets an integer
\* column: the literal '1' and the number 1 are both 1.
SqlInt(v) == v[2]

\* An integer column read back through psycopg2 is a Python int.
FromSql(n) == JInt(n)

(***************************************************************************)
(* Text: a string is a sequence of one-character strings.                  *)
(***************************************************************************)
Rep(c, n) == [i \in 1..n |-> c]

RECURSIVE LStrip(_)
LStrip(s) == IF s # <<>> /\ Head(s) = " " THEN LStrip(Tail(s)) ELSE s

RECURSIVE RStrip(_)
RStrip(s) == IF s # <<>> /\ s[Len(s)] = " " THEN RStrip(SubSeq(s, 1, Len(s) - 1)) ELSE s

\* str.strip()
Strip(s) == RStrip(LStrip(s))

\* text[:n]
Prefix(s, n) == SubSeq(s, 1, IF Len(s) < n THEN Len(s) ELSE n)

\* hashlib.sha256(password.encode()).hexdigest(): a digest, one per password.
hash_password(password) == <<"sha256", password>>

\* A timestamp column holds a datetime; format_timestamp gives its epoch seconds.
DateTime(t) == <<"datetime", t>>

format_timestamp(dt) == IF dt[1] = "datetime" THEN dt[2] ELSE dt

CommentMax == 500
FeedLimit == 50
UsernameMin == 3
UsernameMax == 30
PasswordMin == 6

(***************************************************************************)
(* The database.  users, posts, comments and notifications are sequences   *)
(* (a row's id is its position, its created_at its insertion order);      *)
(* likes and follows are bags of (user_id, post_id) and                    *)
(* (follower_id, following_id) rows: the code relies on no key.            *)
(***************************************************************************)
Db == [users |-> users, posts |-> posts, likes |-> likes, follows |-> follows,
       comments |-> comments, notifications |-> notifications]

RemoveCopies(B, e, n) == IF n = 0 \/ ~BagIn(e, B) THEN B
                         ELSE B (-) [x \in {e} |-> n]

AddCopy(B, e) == B (+) SetToBag({e})

\* One write of a transaction, applied to the committed tables.
ApplyOp(db, op) ==
    CASE op.op = "ins_user" ->
           [db EXCEPT !.users = Append(@, [id |-> Len(@) + 1, username |-> op.username,
                                           password |-> op.password, bio |-> "",
                                           profile_pic |-> "",
                                           created_at |-> DateTime(Len(@) + 1)])]
      [] op.op = "ins_like" -> [db EXCEPT !.likes = AddCopy(@, op.key)]
      [] op.op = "del_like" -> [db EXCEPT !.likes = RemoveCopies(@, op.key, op.n)]
      [] op.op = "ins_follow" -> [db EXCEPT !.follows = AddCopy(@, op.key)]
      [] op.op = "del_follow" -> [db EXCEPT !.follows = RemoveCopies(@, op.key, op.n)]
      [] op.op = "ins_comment" ->
           [db EXCEPT !.comments = Append(@, [id |-> Len(@) + 1, user_id |-> op.user_id,
                                              post_id |-> op.post_id, text |-> op.text,
                                              created_at |-> DateTime(Len(@) + 1)])]
      [] op.op = "ins_notif" ->
           [db EXCEPT !.notifications = Append(@, [id |-> Len(@) + 1, user_id |-> op.user_id,
                                                   from_user_id |-> op.from_user_id,
                                                   type |-> op.type, post_id |-> op.post_id,
                                                   read |-> FALSE])]
      [] op.op = "upd_read" ->
           [db EXCEPT !.notifications =
               [i \in DOMAIN @ |-> IF i \in op.ids THEN [@[i] EXCEPT !.read = TRUE] ELSE @[i]]]

RECURSIVE ApplyAll(_, _)
ApplyAll(db, tx) == IF tx = <<>> THEN db ELSE ApplyAll(ApplyOp(db, Head(tx)), Tail(tx))

\* What a statement of the transaction sees: the committed rows and its own writes.
View(db, tx) == ApplyAll(db, tx)

(***************************************************************************)
(* A request in progress: the handler's frame and its connection.          *)
(*   pc        the statement to run next ("idle": no request; "done": the  *)
(*             response has been produced)                                 *)
(*   tx        the writes of the open transaction, not yet committed       *)
(*   exc       "none", "caught" (by the handler's except clause) or        *)
(*             "uncaught" (raised outside the try block: Flask answers)    *)
(*   at        the statement that raised, "" when none did                 *)
(***************************************************************************)
NoLoc == [existing |-> FALSE, owner |-> 0, out |-> <<>>]

NoResp == [status |-> 0, body |-> [pending |-> TRUE]]

Idle == [handler |-> "none", args |-> <<>>, pc |-> "idle", connOpen |-> FALSE,
         curOpen |-> FALSE, tx |-> <<>>, loc |-> NoLoc, resp |-> NoResp, exc |-> "none",
         at |-> ""]

NewCtx(h, a) == [Idle EXCEPT !.handler = h, !.args = a, !.pc = "validate"]

Result(c, d) == [ctx |-> c, db |-> d]

Goto(ctx, db, pc) == Result([ctx EXCEPT !.pc = pc], db)

ErrorBody(msg) == [error |-> msg]

\* return jsonify(...), code   before any connection is opened
Return(ctx, db, status, body) ==
    Result([ctx EXCEPT !.pc = "done", !.loc = NoLoc,
                       !.resp = [status |-> status, body |-> body]], db)

\* finally: cur.close(); conn.close()   then the response is produced.
\* Closing a connection discards whatever its transaction has not committed.
Finally(ctx, db, status, body) ==
    Result([ctx EXCEPT !.pc = "done", !.loc = NoLoc, !.curOpen = FALSE,
                       !.connOpen = FALSE, !.tx = <<>>,
                       !.resp = [status |-> status, body |-> body]], db)

\* except Exception: conn.rollback(); return jsonify({'error': msg}), 500
Except(ctx, db, msg) ==
    Finally([ctx EXCEPT !.exc = "caught", !.at = ctx.pc, !.tx = <<>>], db, 500, ErrorBody(msg))

\* An exception raised outside the handler's try block reaches Flask, which
\* answers with its own 500 page; no finally clause runs.
Uncaught(ctx, db) ==
    Result([ctx EXCEPT !.pc = "done", !.loc = NoLoc, !.exc = "uncaught", !.at = ctx.pc,
                       !.resp = [status |-> 500,
                                 body |-> [html |-> "Internal Server Error"]]], db)

\* conn = get_db()
Connect(ctx, db, fail) ==
    IF fail THEN Uncaught(ctx, db)
    ELSE Goto([ctx EXCEPT !.connOpen = TRUE], db, "cursor")

\* cur = conn.cursor()
Cursor(ctx, db, fail, first) ==
    IF fail THEN Uncaught(ctx, db)
    ELSE Goto([ctx EXCEPT !.curOpen = TRUE], db, first)

\* conn.commit(); return jsonify(body)
Commit(ctx, db, fail, msg, body) ==
    IF fail THEN Except(ctx, db, msg)
    ELSE Finally(ctx, ApplyAll(db, ctx.tx), 200, body)

\* cur.execute of a write: the row joins the transaction.
Write(ctx, op) == [ctx EXCEPT !.tx = Append(@, op)]

Project(row, fields) == [f \in fields |-> row[f]]

Stamp(row) == [row EXCEPT !.created_at = format_timestamp(@)]

(***************************************************************************)
(* signup (src/app.py 46-90)                                               *)
(***************************************************************************)
UserFields == {"id", "username", "bio", "profile_pic", "created_at"}

UsernameTaken(db, username) == \E i \in DOMAIN db.users : db.users[i].username = username

\* INSERT INTO users ... RETURNING id, username, bio, profile_pic, created_at
SignupReturning(row) == Project(row, UserFields)

\* (mutation) the lower bound is off by one: <= where the code has <
SignupValidate_OffByOne(ctx, db) ==
    LET username == Strip(ctx.args.username)
        password == ctx.args.password
    IN IF username = <<>> \/ password = <<>>
       THEN Return(ctx, db, 400, ErrorBody("Missing required fields"))
       ELSE IF Len(username) <= UsernameMin \/ Len(username) > UsernameMax
       THEN Return(ctx, db, 400, ErrorBody("Username must be 3-30 characters"))
       ELSE IF Len(password) < PasswordMin
       THEN Return(ctx, db, 400, ErrorBody("Password must be at least 6 characters"))
       ELSE Goto(ctx, db, "connect")

SignupValidate(ctx, db) ==
    LET username == Strip(ctx.args.username)
        password == ctx.args.password
    IN IF username = <<>> \/ password = <<>>
       THEN Return(ctx, db, 400, ErrorBody("Missing required fields"))
       ELSE IF Len(username) < UsernameMin \/ Len(username) > UsernameMax
       THEN Return(ctx, db, 400, ErrorBody("Username must be 3-30 characters"))
       ELSE IF Len(password) < PasswordMin
       THEN Return(ctx, db, 400, ErrorBody("Password must be at least 6 characters"))
       ELSE Goto(ctx, db, "connect")

\* (mutation) the existence check is missing
SignupSelect_NoCheck(ctx, db, fail) ==
    IF fail THEN Except(ctx, db, "Signup failed") ELSE Goto(ctx, db, "insert")

SignupSelect(ctx, db, fail) ==
    IF fail THEN Except(ctx, db, "Signup failed")
    ELSE IF UsernameTaken(View(db, ctx.tx), Strip(ctx.args.username))
    THEN Finally(ctx, db, 400, ErrorBody("Username already exists"))
    ELSE Goto(ctx, db, "insert")

SignupInsert(ctx, db, fail) ==
    IF fail THEN Except(ctx, db, "Signup failed")
    ELSE LET w == Write(ctx, [op |-> "ins_user", username |-> Strip(ctx.args.username),
                              password |-> hash_password(ctx.args.password)])
             seen == View(db, w.tx).users
             user == Stamp(SignupReturning(seen[Len(seen)]))
         IN Goto([w EXCEPT !.loc.out = user], db, "commit")

SignupStep(ctx, db, fail) ==
    CASE ctx.pc = "validate" -> SignupValidate(ctx, db)
      [] ctx.pc = "connect" -> Connect(ctx, db, fail)
      [] ctx.pc = "cursor" -> Cursor(ctx, db, fail, "select")
      [] ctx.pc = "select" -> SignupSelect(ctx, db, fail)
      [] ctx.pc = "insert" -> SignupInsert(ctx, db, fail)
      [] ctx.pc = "commit" ->
           Commit(ctx, db, fail, "Signup failed", [success |-> TRUE, user |-> ctx.loc.out])

(***************************************************************************)
(* login (src/app.py 92-127)                                               *)
(***************************************************************************)
LoginValidate(ctx, db) ==
    IF Strip(ctx.args.username) = <<>> \/ ctx.args.password = <<>>
    THEN Return(ctx, db, 400, ErrorBody("Missing required fields"))
    ELSE Goto(ctx, db, "connect")

\* del user_dict['password']
DelPassword(row) == Project(row, DOMAIN row \ {"password"})

\* (mutation) an unknown username gets an answer of its own
LoginSelect_UserNotFound(ctx, db, fail) ==
    IF fail THEN Except(ctx, db, "Login failed")
    ELSE LET seen == View(db, ctx.tx).users
             found == {i \in DOMAIN seen : seen[i].username = Strip(ctx.args.username)}
         IN IF found = {}
            THEN Finally(ctx, db, 404, ErrorBody("User not found"))
            ELSE LET user == seen[CHOOSE i \in found : \A j \in found : i <= j]
                 IN IF user.password # hash_password(ctx.args.password)
                    THEN Finally(ctx, db, 401, ErrorBody("Invalid credentials"))
                    ELSE Finally(ctx, db, 200,
                                 [success |-> TRUE, user |-> Stamp(DelPassword(user))])

LoginSelect(ctx, db, fail) ==
    IF fail THEN Except(ctx, db, "Login failed")
    ELSE LET seen == View(db, ctx.tx).users
             found == {i \in DOMAIN seen : seen[i].username = Strip(ctx.args.username)}
         IN IF found = {}
            THEN Finally(ctx, db, 401, ErrorBody("Invalid credentials"))
            ELSE LET user == seen[CHOOSE i \in found : \A j \in found : i <= j]
                 IN IF user.password # hash_password(ctx.args.password)
                    THEN Finally(ctx, db, 401, ErrorBody("Invalid credentials"))
                    ELSE Finally(ctx, db, 200,
                                 [success |-> TRUE, user |-> Stamp(DelPassword(user))])

LoginStep(ctx, db, fail) ==
    CASE ctx.pc = "validate" -> LoginValidate(ctx, db)
      [] ctx.pc = "connect" -> Connect(ctx, db, fail)
      [] ctx.pc = "cursor" -> Cursor(ctx, db, fail, "select")
      [] ctx.pc = "select" -> LoginSelect(ctx, db, fail)

(***************************************************************************)
(* get_feed (src/app.py 131-173)                                           *)
(***************************************************************************)
Max(S) == CHOOSE m \in S : \A x \in S : x <= m

\* ORDER BY created_at DESC LIMIT n over the post ids S (created_at grows with id)
RECURSIVE Newest(_, _)
Newest(S, n) == IF n = 0 \/ S = {} THEN <<>>
                ELSE <<Max(S)>> \o Newest(S \ {Max(S)}, n - 1)

Likers(db, pid) == LET S == {k \in BagToSet(db.likes) : k[2] = pid}
                   IN [u \in {k[1] : k \in S} |-> CopiesIn(<<u, pid>>, db.likes)]

CountLikes(db, pid) == BagCardinality(Likers(db, pid))

CountComments(db, pid) == Cardinality({i \in DOMAIN db.comments : db.comments[i].post_id = pid})

\* (mutation) the subquery reads the edge backwards: the user's followers
FeedAuthors_Followers(db, uid) ==
    {k[1] : k \in {f \in BagToSet(db.follows) : f[2] = uid}} \cup {uid}

FeedAuthors(db, uid) == {k[2] : k \in {f \in BagToSet(db.follows) : f[1] = uid}} \cup {uid}

FeedQuery(db, uid) ==
    LET joined == {i \in DOMAIN db.posts :
                      /\ \E j \in DOMAIN db.users : db.users[j].id = db.posts[i].user_id
                      /\ db.posts[i].user_id \in FeedAuthors(db, uid)}
        ids == Newest(joined, FeedLimit)
    IN [k \in DOMAIN ids |->
          [id |-> ids[k], user_id |-> db.posts[ids[k]].user_id,
           created_at |-> format_timestamp(db.posts[ids[k]].created_at),
           likes_count |-> CountLikes(db, ids[k]),
           comments_count |-> CountComments(db, ids[k]),
           likes |-> Likers(db, ids[k])]]

FeedValidate(ctx, db) ==
    IF ~Truthy(ctx.args.user_id) THEN Return(ctx, db, 401, ErrorBody("Unauthorized"))
    ELSE Goto(ctx, db, "connect")

FeedSelect(ctx, db, fail) ==
    IF fail THEN Except(ctx, db, "Failed to load feed")
    ELSE Finally(ctx, db, 200, [posts |-> FeedQuery(View(db, ctx.tx), SqlInt(ctx.args.user_id))])

FeedStep(ctx, db, fail) ==
    CASE ctx.pc = "validate" -> FeedValidate(ctx, db)
      [] ctx.pc = "connect" -> Connect(ctx, db, fail)
      [] ctx.pc = "cursor" -> Cursor(ctx, db, fail, "select")
      [] ctx.pc = "select" -> FeedSelect(ctx, db, fail)

(***************************************************************************)
(* like_post (src/app.py 212-258)                                          *)
(***************************************************************************)
LikeKey(a) == <<SqlInt(a.user_id), SqlInt(a.post_id)>>

\* SELECT user_id FROM posts WHERE id = %s ; 0 stands for no row (None)
PostOwner(db, pid) == IF pid \in DOMAIN db.posts THEN db.posts[pid].user_id ELSE 0

\* if post_owner and dict(post_owner)['user_id'] != user_id
OwnerIsOther(owner, user_id) == owner # 0 /\ ~PyEq(FromSql(owner), user_id)

Notif(to, from, type, pid) ==
    [op |-> "ins_notif", user_id |-> to, from_user_id |-> from, type |-> type, post_id |-> pid]

LikeValidate(ctx, db) ==
    IF ~Truthy(ctx.args.user_id) \/ ~Truthy(ctx.args.post_id)
    THEN Return(ctx, db, 400, ErrorBody("Missing required fields"))
    ELSE Goto(ctx, db, "connect")

LikeSelectExisting(ctx, db, fail) ==
    IF fail THEN Except(ctx, db, "Failed to like post")
    ELSE LET existing == BagIn(LikeKey(ctx.args), View(db, ctx.tx).likes)
         IN Goto([ctx EXCEPT !.loc.existing = existing], db,
                 IF existing THEN "delete" ELSE "insert")

\* (mutation) the unlike also deletes the notification its like had made
LikeDelete_Retracts(ctx, db, fail) ==
    IF fail THEN Except(ctx, db, "Failed to like post")
    ELSE Goto(Write(ctx, [op |-> "del_like", key |-> LikeKey(ctx.args),
                          n |-> CopiesIn(LikeKey(ctx.args), View(db, ctx.tx).likes)]),
              [db EXCEPT !.notifications =
                  SelectSeq(@, LAMBDA n : ~(/\ n.type = "like"
                                            /\ n.from_user_id = SqlInt(ctx.args.user_id)
                                            /\ n.post_id = SqlInt(ctx.args.post_id)))],
              "commit")

\* (mutation) the DELETE is skipped
LikeDelete_KeepsRow(ctx, db, fail) ==
    IF fail THEN Except(ctx, db, "Failed to like post") ELSE Goto(ctx, db, "commit")

LikeDelete(ctx, db, fail) ==
    IF fail THEN Except(ctx, db, "Failed to like post")
    ELSE Goto(Write(ctx, [op |-> "del_like", key |-> LikeKey(ctx.args),
                          n |-> CopiesIn(LikeKey(ctx.args), View(db, ctx.tx).likes)]),
              db, "commit")

\* (mutation) the INSERT commits at once, as on an autocommit connection
LikeInsert_Autocommit(ctx, db, fail) ==
    IF fail THEN Except(ctx, db, "Failed to like post")
    ELSE Goto(ctx, ApplyOp(db, [op |-> "ins_like", key |-> LikeKey(ctx.args)]), "select_owner")

LikeInsert(ctx, db, fail) ==
    IF fail THEN Except(ctx, db, "Failed to like post")
    ELSE Goto(Write(ctx, [op |-> "ins_like", key |-> LikeKey(ctx.args)]), db, "select_owner")

LikeSelectOwner(ctx, db, fail) ==
    IF fail THEN Except(ctx, db, "Failed to like post")
    ELSE LET owner == PostOwner(View(db, ctx.tx), SqlInt(ctx.args.post_id))
         IN Goto([ctx EXCEPT !.loc.owner = owner], db,
                 IF OwnerIsOther(owner, ctx.args.user_id) THEN "notify" ELSE "commit")

LikeNotify(ctx, db, fail) ==
    IF fail THEN Except(ctx, db, "Failed to like post")
    ELSE Goto(Write(ctx, Notif(ctx.loc.owner, SqlInt(ctx.args.user_id), "like",
                               SqlInt(ctx.args.post_id))),
              db, "commit")

LikeStep(ctx, db, fail) ==
    CASE ctx.pc = "validate" -> LikeValidate(ctx, db)
      [] ctx.pc = "connect" -> Connect(ctx, db, fail)
      [] ctx.pc = "cursor" -> Cursor(ctx, db, fail, "select_existing")
      [] ctx.pc = "select_existing" -> LikeSelectExisting(ctx, db, fail)
      [] ctx.pc = "delete" -> LikeDelete(ctx, db, fail)
      [] ctx.pc = "insert" -> LikeInsert(ctx, db, fail)
      [] ctx.pc = "select_owner" -> LikeSelectOwner(ctx, db, fail)
      [] ctx.pc = "notify" -> LikeNotify(ctx, db, fail)
      [] ctx.pc = "commit" ->
           Commit(ctx, db, fail, "Failed to like post",
                  [success |-> TRUE, liked |-> ~ctx.loc.existing])

(***************************************************************************)
(* add_comment (src/app.py 260-302)                                        *)
(***************************************************************************)
CommentValidate(ctx, db) ==
    IF ~Truthy(ctx.args.user_id) \/ ~Truthy(ctx.args.post_id) \/ Strip(ctx.args.text) = <<>>
    THEN Return(ctx, db, 400, ErrorBody("Missing required fields"))
    ELSE Goto(ctx, db, "connect")

CommentInsert(ctx, db, fail) ==
    IF fail THEN Except(ctx, db, "Failed to add comment")
    ELSE LET w == Write(ctx, [op |-> "ins_comment", user_id |-> SqlInt(ctx.args.user_id),
                              post_id |-> SqlInt(ctx.args.post_id),
                              text |-> Prefix(Strip(ctx.args.text), CommentMax)])
             seen == View(db, w.tx).comments
             comment == Stamp(Project(seen[Len(seen)], {"id", "created_at"}))
         IN Goto([w EXCEPT !.loc.out = comment], db, "select_owner")

CommentSelectOwner(ctx, db, fail) ==
    IF fail THEN Except(ctx, db, "Failed to add comment")
    ELSE LET owner == PostOwner(View(db, ctx.tx), SqlInt(ctx.args.post_id))
         IN Goto([ctx EXCEPT !.loc.owner = owner], db,
                 IF OwnerIsOther(owner, ctx.args.user_id) THEN "notify" ELSE "commit")

CommentNotify(ctx, db, fail) ==
    IF fail THEN Except(ctx, db, "Failed to add comment")
    ELSE Goto(Write(ctx, Notif(ctx.loc.owner, SqlInt(ctx.args.user_id), "comment",
                               SqlInt(ctx.args.post_id))),
              db, "commit")

CommentStep(ctx, db, fail) ==
    CASE ctx.pc = "validate" -> CommentValidate(ctx, db)
      [] ctx.pc = "connect" -> Connect(ctx, db, fail)
      [] ctx.pc = "cursor" -> Cursor(ctx, db, fail, "insert")
      [] ctx.pc = "insert" -> CommentInsert(ctx, db, fail)
      [] ctx.pc = "select_owner" -> CommentSelectOwner(ctx, db, fail)
      [] ctx.pc = "notify" -> CommentNotify(ctx, db, fail)
      [] ctx.pc = "commit" ->
           Commit(ctx, db, fail, "Failed to add comment",
                  [success |-> TRUE, comment |-> ctx.loc.out])

(***************************************************************************)
(* toggle_follow (src/app.py 341-387)                                      *)
(***************************************************************************)
FollowKey(a) == <<SqlInt(a.follower_id), SqlInt(a.following_id)>>

FollowValidate(ctx, db) ==
    IF ~Truthy(ctx.args.follower_id) \/ ~Truthy(ctx.args.following_id)
    THEN Return(ctx, db, 400, ErrorBody("Missing required fields"))
    ELSE IF PyEq(ctx.args.follower_id, ctx.args.following_id)
    THEN Return(ctx, db, 400, ErrorBody("Cannot follow yourself"))
    ELSE Goto(ctx, db, "connect")

FollowSelectExisting(ctx, db, fail) ==
    IF fail THEN Except(ctx, db, "Failed to follow")
    ELSE LET existing == BagIn(FollowKey(ctx.args), View(db, ctx.tx).follows)
         IN Goto([ctx EXCEPT !.loc.existing = existing], db,
                 IF existing THEN "delete" ELSE "insert")

FollowDelete(ctx, db, fail) ==
    IF fail THEN Except(ctx, db, "Failed to follow")
    ELSE Goto(Write(ctx, [op |-> "del_follow", key |-> FollowKey(ctx.args),
                          n |-> CopiesIn(FollowKey(ctx.args), View(db, ctx.tx).follows)]),
              db, "commit")

FollowInsert(ctx, db, fail) ==
    IF fail THEN Except(ctx, db, "Failed to follow")
    ELSE Goto(Write(ctx, [op |-> "ins_follow", key |-> FollowKey(ctx.args)]), db, "notify")

\* INSERT INTO notifications (user_id, from_user_id, type): post_id stays NULL (0)
FollowNotify(ctx, db, fail) ==
    IF fail THEN Except(ctx, db, "Failed to follow")
    ELSE Goto(Write(ctx, Notif(SqlInt(ctx.args.following_id), SqlInt(ctx.args.follower_id),
                               "follow", 0)),
              db, "commit")

FollowStep(ctx, db, fail) ==
    CASE ctx.pc = "validate" -> FollowValidate(ctx, db)
      [] ctx.pc = "connect" -> Connect(ctx, db, fail)
      [] ctx.pc = "cursor" -> Cursor(ctx, db, fail, "select_existing")
      [] ctx.pc = "select_existing" -> FollowSelectExisting(ctx, db, fail)
      [] ctx.pc = "delete" -> FollowDelete(ctx, db, fail)
      [] ctx.pc = "insert" -> FollowInsert(ctx, db, fail)
      [] ctx.pc = "notify" -> FollowNotify(ctx, db, fail)
      [] ctx.pc = "commit" ->
           Commit(ctx, db, fail, "Failed to follow",
                  [success |-> TRUE, followed |-> ~ctx.loc.existing])

(***************************************************************************)
(* mark_notification_read (src/app.py 531-562)                             *)
(***************************************************************************)
MarkReadValidate(ctx, db) ==
    IF ~Truthy(ctx.args.user_id) THEN Return(ctx, db, 401, ErrorBody("Unauthorized"))
    ELSE Goto(ctx, db, "connect")

\* (mutation) the WHERE clause of the single-row UPDATE lacks AND user_id = %s
MarkReadRows_AnyOwner(db, user_id, notification_id) ==
    IF Truthy(notification_id)
    THEN {i \in DOMAIN db.notifications : db.notifications[i].id = SqlInt(notification_id)}
    ELSE {i \in DOMAIN db.notifications : db.notifications[i].user_id = SqlInt(user_id)}

\* The rows the UPDATE's WHERE clause selects.
MarkReadRows(db, user_id, notification_id) ==
    IF Truthy(notification_id)
    THEN {i \in DOMAIN db.notifications :
             /\ db.notifications[i].id = SqlInt(notification_id)
             /\ db.notifications[i].user_id = SqlInt(user_id)}
    ELSE {i \in DOMAIN db.notifications : db.notifications[i].user_id = SqlInt(user_id)}

MarkReadUpdate(ctx, db, fail) ==
    IF fail THEN Except(ctx, db, "Failed to mark as read")
    ELSE Goto(Write(ctx, [op |-> "upd_read",
                          ids |-> MarkReadRows(View(db, ctx.tx), ctx.args.user_id,
                                               ctx.args.notification_id)]),
              db, "commit")

MarkReadStep(ctx, db, fail) ==
    CASE ctx.pc = "validate" -> MarkReadValidate(ctx, db)
      [] ctx.pc = "connect" -> Connect(ctx, db, fail)
      [] ctx.pc = "cursor" -> Cursor(ctx, db, fail, "update")
      [] ctx.pc = "update" -> MarkReadUpdate(ctx, db, fail)
      [] ctx.pc = "commit" ->
           Commit(ctx, db, fail, "Failed to mark as read", [success |-> TRUE])

(***************************************************************************)
(* One statement of a request, and a request run to its response.          *)
(***************************************************************************)
Exec(ctx, db, fail) ==
    CASE ctx.handler = "signup" -> SignupStep(ctx, db, fail)
      [] ctx.handler = "login" -> LoginStep(ctx, db, fail)
      [] ctx.handler = "get_feed" -> FeedStep(ctx, db, fail)
      [] ctx.handler = "like_post" -> LikeStep(ctx, db, fail)
      [] ctx.handler = "add_comment" -> CommentStep(ctx, db, fail)
      [] ctx.handler = "toggle_follow" -> FollowStep(ctx, db, fail)
      [] ctx.handler = "mark_notification_read" -> MarkReadStep(ctx, db, fail)

\* The request runs alone; its k-th statement raises (k = 0 and k past the
\* last statement: none does).
RECURSIVE Run(_, _, _)
Run(ctx, db, k) ==
    IF ctx.pc = "done" THEN Result(ctx, db)
    ELSE LET r == Exec(ctx, db, k = 1) IN Run(r.ctx, r.db, k - 1)

(***************************************************************************)
(* Requests.  An id arrives as a JSON number, as a JSON string, or not at  *)
(* all; a text field as a string (a missing text key reads as '').         *)
(***************************************************************************)
MaxConns == 2

Conns == 1..MaxConns

FailPoints == 0..8

UserIdInputs == {JNull, JInt(1), JInt(2), JStr(1)}

\* post 3 does not exist
PostIdInputs == {JNull, JInt(1), JInt(3)}

NotificationIdInputs == {JNull, JInt(1), JInt(2), JInt(3)}

\* request.args.get('user_id'): a query parameter is a string, or absent
QueryIdInputs == {JNull, JStr(1), JStr(2)}

TextInputs == {<<" ">>, <<" ", "h", "i">>}

UsernameInputs == {<<>>, <<" ", " ", " ">>, <<"a", "b">>, <<"a", "b", "c">>, <<"A", "b", "c">>,
                   <<" ", "a", "b", " ">>, <<" ", "a", "b", "c", " ">>,
                   Rep("a", UsernameMax), Rep("a", UsernameMax + 1),
                   <<" ">> \o Rep("a", UsernameMax) \o <<" ">>}

PasswordInputs == {<<>>, Rep("p", PasswordMin - 1), Rep("p", PasswordMin), Rep("q", PasswordMin)}

MkPosts(owners) == [i \in DOMAIN owners |->
                      [id |-> i, user_id |-> owners[i], created_at |-> DateTime(i)]]

MkUsers(names) == [i \in DOMAIN names |->
                     [id |-> i, username |-> names[i],
                      password |-> hash_password(Rep("p", PasswordMin)), bio |-> "",
                      profile_pic |-> "", created_at |-> DateTime(i)]]

TwoUsers == MkUsers(<<<<"a", "b", "c">>, <<"A", "b", "c">>>>)

\* The posts table is written by no handler of src/app.py: a run starts from
\* a table that is there already.
PostTables == {MkPosts(<<1>>), MkPosts(<<1, 2>>), MkPosts(Rep(1, FeedLimit + 1) \o <<2>>)}

Quiet == /\ conns = [c \in Conns |-> Idle]
         /\ nreq = 0
         /\ before = [present |-> FALSE, chain |-> 0]

NoActivity == /\ likes = EmptyBag
              /\ follows = EmptyBag
              /\ comments = <<>>
              /\ notifications = <<>>

\* History, for the properties only: whether the (user, post) pair of a
\* successful toggle_like was liked before it, and how many successful toggles
\* of that one pair have followed each other without another request between.
Remember(h, a, done) ==
    IF h = "like_post" /\ done.resp.status = 200
    THEN [present |-> BagIn(LikeKey(a), likes),
          chain |-> IF /\ conns[1].handler = "like_post"
                       /\ conns[1].resp.status = 200
                       /\ LikeKey(conns[1].args) = LikeKey(a)
                    THEN before.chain + 1 ELSE 1]
    ELSE [present |-> FALSE, chain |-> 0]

\* One whole request on connection 1, from its arguments to its response.
Handle(h, a) ==
    /\ \E r \in {Run(NewCtx(h, a), Db, k) : k \in FailPoints} :
             /\ conns' = [conns EXCEPT ![1] = r.ctx]
             /\ users' = r.db.users
             /\ posts' = r.db.posts
             /\ likes' = r.db.likes
             /\ follows' = r.db.follows
             /\ comments' = r.db.comments
             /\ notifications' = r.db.notifications
             /\ before' = Remember(h, a, r.ctx)
    /\ nreq' = nreq + 1

(***************************************************************************)
(* Spec: like, comment and follow requests, one after the other.           *)
(***************************************************************************)
\* What one committed like of post 1 by user 2 wrote.
LikeOps == <<[op |-> "ins_like", key |-> <<2, 1>>], Notif(1, 2, "like", 1)>>

\* The tables before any like, after one like, and after two racing likes
\* (both committed: the pair is held twice).
LikeTables ==
    LET clean == [users |-> TwoUsers, posts |-> MkPosts(<<1, 2>>), likes |-> EmptyBag,
                  follows |-> EmptyBag, comments |-> <<>>, notifications |-> <<>>]
    IN {ApplyAll(clean, tx) : tx \in {<<>>, LikeOps, LikeOps \o LikeOps}}

Init == /\ \E d \in LikeTables :
              /\ users = d.users
              /\ posts = d.posts
              /\ likes = d.likes
              /\ follows = d.follows
              /\ comments = d.comments
              /\ notifications = d.notifications
        /\ Quiet

LikePost == /\ nreq < MaxRequests
            /\ \E u \in UserIdInputs, p \in PostIdInputs :
                  Handle("like_post", [user_id |-> u, post_id |-> p])

AddComment == /\ nreq < MaxRequests
              /\ \E u \in UserIdInputs, p \in PostIdInputs, t \in TextInputs :
                    Handle("add_comment", [user_id |-> u, post_id |-> p, text |-> t])

ToggleFollow == /\ nreq < MaxRequests
                /\ \E u \in UserIdInputs, v \in UserIdInputs :
                      Handle("toggle_follow", [follower_id |-> u, following_id |-> v])

Next == LikePost \/ AddComment \/ ToggleFollow

Spec == Init /\ [][Next]_vars

(***************************************************************************)
(* SpecRead: notifications are made by likes and follows, then marked.     *)
(***************************************************************************)
MaxReadRequests == 4

ReadLike == /\ nreq < MaxReadRequests
            /\ \E u \in {JInt(1), JInt(2)}, p \in {JInt(1), JInt(2)} :
                  Handle("like_post", [user_id |-> u, post_id |-> p])

ReadFollow == /\ nreq < MaxReadRequests
              /\ \E u \in {JInt(1), JInt(2)}, v \in {JInt(1), JInt(2)} :
                    Handle("toggle_follow", [follower_id |-> u, following_id |-> v])

MarkNotificationRead == /\ nreq < MaxReadRequests
                        /\ \E u \in UserIdInputs, n \in NotificationIdInputs :
                              Handle("mark_notification_read",
                                     [user_id |-> u, notification_id |-> n])

NextRead == ReadLike \/ ReadFollow \/ MarkNotificationRead

InitClean == /\ users = TwoUsers
             /\ posts = MkPosts(<<1, 2>>)
             /\ NoActivity
             /\ Quiet

SpecRead == InitClean /\ [][NextRead]_vars

(***************************************************************************)
(* SpecFeed: follows, likes and comments change what a feed shows.         *)
(***************************************************************************)
MaxFeedRequests == 3

InitFeed == /\ users = TwoUsers
            /\ posts \in PostTables
            /\ NoActivity
            /\ Quiet

FeedFollow == /\ nreq < MaxFeedRequests
              /\ \E u \in {JInt(1), JInt(2)}, v \in {JInt(1), JInt(2)} :
                    Handle("toggle_follow", [follower_id |-> u, following_id |-> v])

FeedLike == /\ nreq < MaxFeedRequests
            /\ \E u \in {JInt(1), JInt(2)} :
                  Handle("like_post", [user_id |-> u, post_id |-> JInt(1)])

GetFeed == /\ nreq < MaxFeedRequests
           /\ \E u \in QueryIdInputs :
                 Handle("get_feed", [user_id |-> u])

NextFeed == FeedFollow \/ FeedLike \/ GetFeed

SpecFeed == InitFeed /\ [][NextFeed]_vars

(***************************************************************************)
(* SpecAuth: signup and login requests against an empty users table.       *)
(***************************************************************************)
InitAuth == /\ users = <<>>
            /\ posts = <<>>
            /\ NoActivity
            /\ Quiet

Signup == /\ nreq < MaxAuthRequests
          /\ \E u \in UsernameInputs, p \in PasswordInputs :
                Handle("signup", [username |-> u, password |-> p])

Login == /\ nreq < MaxAuthRequests
         /\ \E u \in UsernameInputs, p \in PasswordInputs :
               Handle("login", [username |-> u, password |-> p])

NextAuth == Signup \/ Login

SpecAuth == InitAuth /\ [][NextAuth]_vars

(***************************************************************************)
(* SpecRace: like and follow requests on two connections, their statements *)
(* interleaved.  Each statement reads the rows committed so far and the    *)
(* writes of its own transaction (READ COMMITTED); a DELETE waits while    *)
(* another open transaction has deleted the same rows (row locks).         *)
(***************************************************************************)
Deletes(ctx) == {i \in DOMAIN ctx.tx : ctx.tx[i].op \in {"del_like", "del_follow"}
                                       /\ ctx.tx[i].n > 0}

DeleteTarget(ctx) ==
    IF ctx.handler = "like_post" THEN [op |-> "del_like", key |-> LikeKey(ctx.args)]
    ELSE [op |-> "del_follow", key |-> FollowKey(ctx.args)]

Blocked(c) ==
    /\ conns[c].pc = "delete"
    /\ \E d \in Conns \ {c} : \E i \in Deletes(conns[d]) :
          /\ conns[d].tx[i].op = DeleteTarget(conns[c]).op
          /\ conns[d].tx[i].key = DeleteTarget(conns[c]).key

RaceRequests ==
    {[handler |-> "like_post", args |-> [user_id |-> u, post_id |-> JInt(1)]] :
        u \in {JInt(1), JInt(2)}}
    \cup {[handler |-> "toggle_follow", args |-> [follower_id |-> JInt(1), following_id |-> JInt(2)]]}

RaceBegin == \E c \in Conns, q \in RaceRequests :
                /\ conns[c].pc \in {"idle", "done"}
                /\ nreq < MaxRaceRequests
                /\ nreq' = nreq + 1
                /\ conns' = [conns EXCEPT ![c] = NewCtx(q.handler, q.args)]
                /\ UNCHANGED <<users, posts, likes, follows, comments, notifications, before>>

RaceStep == \E c \in Conns, fail \in BOOLEAN :
               /\ conns[c].pc \notin {"idle", "done"}
               /\ ~Blocked(c)
               /\ \E r \in {Exec(conns[c], Db, fail)} :
                     /\ conns' = [conns EXCEPT ![c] = r.ctx]
                     /\ users' = r.db.users
                     /\ posts' = r.db.posts
                     /\ likes' = r.db.likes
                     /\ follows' = r.db.follows
                     /\ comments' = r.db.comments
                     /\ notifications' = r.db.notifications
               /\ UNCHANGED <<nreq, before>>

NextRace == RaceBegin \/ RaceStep

SpecRace == InitClean /\ [][NextRace]_vars

(***************************************************************************)
(* SpecLog: every handler that writes comments or notifications, and the   *)
(* one that updates them, one request after the other.                     *)
(***************************************************************************)
MaxLogRequests == 4

LogLike == /\ nreq < MaxLogRequests
           /\ \E u \in {JInt(1), JInt(2)} :
                 Handle("like_post", [user_id |-> u, post_id |-> JInt(1)])

LogComment == /\ nreq < MaxLogRequests
              /\ \E p \in {JInt(1), JInt(3)}, t \in TextInputs :
                    Handle("add_comment", [user_id |-> JInt(2), post_id |-> p, text |-> t])

LogFollow == /\ nreq < MaxLogRequests
             /\ \E u \in {JInt(1), JInt(2)}, v \in {JInt(1), JInt(2)} :
                   Handle("toggle_follow", [follower_id |-> u, following_id |-> v])

LogMarkRead == /\ nreq < MaxLogRequests
               /\ \E u \in {JNull, JInt(1), JInt(2)}, n \in {JNull, JInt(1), JInt(2)} :
                     Handle("mark_notification_read",
                            [user_id |-> u, notification_id |-> n])

NextLog == LogLike \/ LogComment \/ LogFollow \/ LogMarkRead

SpecLog == InitClean /\ [][NextLog]_vars

(***************************************************************************)
(* Properties.  In the sequential specifications every step is one whole   *)
(* request: the unprimed tables are those before it, the primed ones those *)
(* after it, and conns'[1] holds its arguments and its response.           *)
(***************************************************************************)
Tables == <<users, posts, likes, follows, comments, notifications>>

Answered(ctx, h, status) == ctx.handler = h /\ ctx.pc = "done" /\ ctx.resp.status = status

Liked(key) == BagIn(key, likes)

\* C1: a successful toggle_like answers with the presence of the (user, post)
\* row after its commit, and the second of two successive successful toggles of
\* one (user, post) leaves that presence as it was before the first
\* (not liked -> true -> false; liked -> false -> true).
C1_ToggleLikeTwice ==
    [][Answered(conns'[1], "like_post", 200) =>
         LET key == LikeKey(conns'[1].args)
         IN /\ conns'[1].resp.body.liked = BagIn(key, likes')
            /\ (Answered(conns[1], "like_post", 200) /\ LikeKey(conns[1].args) = key) =>
                  /\ BagIn(key, likes') = before.present
                  /\ conns[1].resp.body.liked = ~before.present
                  /\ conns'[1].resp.body.liked = before.present]_vars

\* C1 witness: two successive successful toggles of one pair that was liked
\* by one row, taking it to not liked and back to liked.
C1_Witness ==
    /\ Answered(conns[1], "like_post", 200)
    /\ before.chain = 2
    /\ ~before.present
    /\ conns[1].resp.body.liked
    /\ CopiesIn(LikeKey(conns[1].args), likes) = 1
    /\ Len(notifications) = 2

\* C2: the likes table holds at most one row per (user_id, post_id) and the
\* follows table at most one row per (follower_id, following_id), in every
\* state the interleaved statements of concurrent toggles can reach.
C2_UniqueRows ==
    /\ \A k \in BagToSet(likes) : CopiesIn(k, likes) <= 1
    /\ \A k \in BagToSet(follows) : CopiesIn(k, follows) <= 1

\* C3: no notification has its recipient as its actor, and no follows row
\* joins a user to themself: a like or a comment on one's own post notifies
\* no one, and a self-follow is rejected.
C3_NoSelfNotification ==
    /\ \A i \in DOMAIN notifications :
          notifications[i].user_id # notifications[i].from_user_id
    /\ \A k \in BagToSet(follows) : k[1] # k[2]
    /\ (/\ conns[1].handler = "toggle_follow"
        /\ conns[1].pc = "done"
        /\ Truthy(conns[1].args.follower_id)
        /\ SqlInt(conns[1].args.follower_id) = SqlInt(conns[1].args.following_id))
          => conns[1].resp = [status |-> 400, body |-> ErrorBody("Cannot follow yourself")]

MarkRead(row) == [row EXCEPT !.read = TRUE]

Usernames == {users[i].username : i \in DOMAIN users}

UniqueUsernames == \A i, j \in DOMAIN users : users[i].username = users[j].username => i = j

NoServerError(ctx) == ctx.exc = "none"

\* C5 as claimed: a signup whose username equals an existing user's fails with
\* 400 'Username already exists' and inserts no row, and no two rows of users
\* share a username.  (A request without a password and a database error,
\* answered 500, are not held against it.)
C5_DuplicateUsernameRejected ==
    [][(/\ conns'[1].handler = "signup"
        /\ nreq' = nreq + 1
        /\ conns'[1].args.username \in Usernames
        /\ conns'[1].args.password # <<>>
        /\ NoServerError(conns'[1]))
          => /\ conns'[1].resp = [status |-> 400, body |-> ErrorBody("Username already exists")]
             /\ users' = users
             /\ UniqueUsernames']_vars

\* C5 amended: a signup whose username, stripped of surrounding whitespace,
\* equals an existing user's inserts no row and is answered 400, or 500 on a
\* database error; the 400 is 'Username already exists' when the password has
\* at least 6 characters, and the validation error of the password otherwise.
\* After any sequence of signups no two rows of users share a username.
C5_DuplicateUsernameNeverInserted ==
    [][(/\ conns'[1].handler = "signup"
        /\ nreq' = nreq + 1)
          => /\ UniqueUsernames'
             /\ Strip(conns'[1].args.username) \in Usernames =>
                   /\ users' = users
                   /\ conns'[1].resp.status \in {400, 500}
                   /\ conns'[1].resp.status = 500 <=> ~NoServerError(conns'[1])
                   /\ (NoServerError(conns'[1]) /\ Len(conns'[1].args.password) >= PasswordMin)
                         => conns'[1].resp.body = ErrorBody("Username already exists")
                   /\ (NoServerError(conns'[1]) /\ Len(conns'[1].args.password) < PasswordMin)
                         => conns'[1].resp.body \in
                               {ErrorBody("Missing required fields"),
                                ErrorBody("Password must be at least 6 characters")}]_vars

\* C5 witness: a signup under a taken username, given with surrounding
\* whitespace and a valid password, was answered 'Username already exists'.
C5_Witness ==
    /\ Answered(conns[1], "signup", 400)
    /\ conns[1].resp.body = ErrorBody("Username already exists")
    /\ conns[1].args.username # Strip(conns[1].args.username)
    /\ Len(users) = 2

\* The response of login to (username, password) in the current state, when
\* its k-th statement raises (k = 0: none does).
LoginResponse(u, p, k) == Run(NewCtx("login", [username |-> u, password |-> p]), Db, k).ctx.resp

InvalidCredentials == [status |-> 401, body |-> ErrorBody("Invalid credentials")]

WrongPassword(u, p) == \E i \in DOMAIN users : users[i].username = u /\ users[i].password # hash_password(p)

C8_SignupValidation ==
    [][(conns'[1].handler = "signup" /\ nreq' = nreq + 1 /\ NoServerError(conns'[1])) =>
         LET a == conns'[1].args
             invalid == \/ Len(a.username) < UsernameMin
                        \/ Len(a.username) > UsernameMax
                        \/ Len(a.password) < PasswordMin
         IN /\ invalid => (conns'[1].resp.status = 400 /\ users' = users)
            /\ (~invalid /\ a.username \notin Usernames) =>
                  /\ conns'[1].resp.status = 200
                  /\ Len(users') = Len(users) + 1
                  /\ "password" \notin DOMAIN conns'[1].resp.body.user]_vars

\* C8 amended: the same, the length of the username being taken after
\* surrounding whitespace is stripped from it, the stripped username being the
\* one that must be unused and the one that is stored; a request that is
\* accepted is answered 200 unless a database error occurs.
C8_SignupValidationStripped ==
    [][(conns'[1].handler = "signup" /\ nreq' = nreq + 1) =>
         LET a == conns'[1].args
             name == Strip(a.username)
             invalid == \/ Len(name) < UsernameMin
                        \/ Len(name) > UsernameMax
                        \/ Len(a.password) < PasswordMin
         IN /\ invalid => (conns'[1].resp.status = 400 /\ users' = users)
            /\ (~invalid /\ name \notin Usernames /\ NoServerError(conns'[1])) =>
                  /\ conns'[1].resp.status = 200
                  /\ Len(users') = Len(users) + 1
                  /\ SubSeq(users', 1, Len(users)) = users
                  /\ users'[Len(users')].username = name
                  /\ conns'[1].resp.body.user.username = name
                  /\ "password" \notin DOMAIN conns'[1].resp.body.user
            /\ (~invalid /\ ~NoServerError(conns'[1])) =>
                  (conns'[1].resp.status = 500 /\ users' = users)]_vars

\* C8 witness: a username of 32 characters, 30 of them between two spaces, was
\* accepted with a password of exactly 6 characters.
C8_Witness ==
    /\ Answered(conns[1], "signup", 200)
    /\ Len(conns[1].args.username) > UsernameMax
    /\ Len(conns[1].args.password) = PasswordMin
    /\ Len(users[Len(users)].username) = UsernameMax
    /\ "password" \notin DOMAIN conns[1].resp.body.user

FollowsNoOne(uid) == \A k \in BagToSet(follows) : k[1] # uid

OwnPosts(uid) == {i \in DOMAIN posts : posts[i].user_id = uid}

Shown(resp) == {resp.body.posts[k].id : k \in DOMAIN resp.body.posts}

Min(a, b) == IF a < b THEN a ELSE b

NotifRow(n) == [user_id |-> n.user_id, from_user_id |-> n.from_user_id,
                type |-> n.type, post_id |-> n.post_id]

Appended(old, new) == Len(new) = Len(old) + 1 /\ SubSeq(new, 1, Len(old)) = old

\* C9: a like, comment or follow request is all or nothing.  A request that is
\* not answered 200 (a statement of it raised, or it was refused) leaves likes,
\* comments, follows and notifications as they were.  A request that commits a
\* new like, comment or follow row commits with it the notification due for it
\* (a like or comment on another user's post: to the owner; a follow: to the
\* followed user), and a notification is committed only together with the row
\* of the request that made it.
C9_AllOrNothing ==
    [][(nreq' = nreq + 1 /\ conns'[1].handler \in {"like_post", "add_comment", "toggle_follow"}) =>
         LET c == conns'[1]
             a == c.args
             grew == Len(notifications') # Len(notifications)
             last == NotifRow(notifications'[Len(notifications')])
         IN /\ c.resp.status # 200 => UNCHANGED Tables
            /\ grew => Appended(notifications, notifications')
            /\ ~grew => notifications' = notifications
            /\ (c.handler = "like_post" /\ c.resp.status = 200) =>
                  LET owner == PostOwner(Db, SqlInt(a.post_id))
                      inserted == CopiesIn(LikeKey(a), likes') > CopiesIn(LikeKey(a), likes)
                  IN /\ grew => inserted /\ last.type = "like"
                     /\ (inserted /\ owner # 0 /\ owner # SqlInt(a.user_id)) =>
                           /\ grew
                           /\ last = [user_id |-> owner, from_user_id |-> SqlInt(a.user_id),
                                      type |-> "like", post_id |-> SqlInt(a.post_id)]
                     /\ UNCHANGED <<comments, follows>>
            /\ (c.handler = "add_comment" /\ c.resp.status = 200) =>
                  LET owner == PostOwner(Db, SqlInt(a.post_id))
                  IN /\ Appended(comments, comments')
                     /\ grew => last.type = "comment"
                     /\ (owner # 0 /\ owner # SqlInt(a.user_id)) =>
                           /\ grew
                           /\ last = [user_id |-> owner, from_user_id |-> SqlInt(a.user_id),
                                      type |-> "comment", post_id |-> SqlInt(a.post_id)]
                     /\ UNCHANGED <<likes, follows>>
            /\ (c.handler = "toggle_follow" /\ c.resp.status = 200) =>
                  LET inserted == CopiesIn(FollowKey(a), follows') > CopiesIn(FollowKey(a), follows)
                  IN /\ grew <=> inserted
                     /\ inserted =>
                           last = [user_id |-> SqlInt(a.following_id),
                                   from_user_id |-> SqlInt(a.follower_id),
                                   type |-> "follow", post_id |-> 0]
                     /\ UNCHANGED <<likes, comments>>]_vars

\* C9 witness: the notification INSERT of a like raised after the like's own
\* INSERT had run; the request was answered 500 and the pair is not liked.
C9_Witness ==
    /\ Answered(conns[1], "like_post", 500)
    /\ conns[1].exc = "caught"
    /\ conns[1].at = "notify"
    /\ ~Liked(LikeKey(conns[1].args))
    /\ notifications = <<>>

\* C10: on every exit path of a request an exception is caught by the handler,
\* the connection the request opened is closed when the response is produced,
\* and a failure is answered with a JSON {error} body.
C10_EveryExitCaught ==
    conns[1].pc = "done" =>
       /\ conns[1].exc # "uncaught"
       /\ ~conns[1].connOpen
       /\ conns[1].resp.status # 200 => DOMAIN conns[1].resp.body = {"error"}

\* The same row but for its read flag.
SameButRead(old, new) == [new EXCEPT !.read = old.read] = old

\* C11: notifications and comments are append-only.  Every request, whatever
\* its answer, leaves each comment row as it was, and leaves each notification
\* row in place (same id) with every field but read unchanged and with a read
\* flag that is still true if it was true; an unlike or an unfollow retracts no
\* notification.
C11_AppendOnly ==
    [][/\ \A i \in DOMAIN comments :
             \E j \in DOMAIN comments' : comments'[j] = comments[i]
       /\ Len(comments') >= Len(comments)
       /\ \A i \in DOMAIN notifications :
             \E j \in DOMAIN notifications' :
                /\ notifications'[j].id = notifications[i].id
                /\ SameButRead(notifications[i], notifications'[j])
                /\ notifications[i].read => notifications'[j].read
       /\ Len(notifications') >= Len(notifications)]_vars

\* C11 witness: user 2 liked post 1, commented on it, its owner read the
\* notifications, and user 2 has just unliked: the like's notification is
\* still there, read, and so is the comment.
C11_Witness ==
    /\ Answered(conns[1], "like_post", 200)
    /\ ~conns[1].resp.body.liked
    /\ ~Liked(LikeKey(conns[1].args))
    /\ \E i \in DOMAIN notifications :
          /\ notifications[i].type = "like"
          /\ notifications[i].from_user_id = SqlInt(conns[1].args.user_id)
          /\ notifications[i].post_id = SqlInt(conns[1].args.post_id)
          /\ notifications[i].read
    /\ comments # <<>>

====
